---- MODULE Spec2Model ----
(***************************************************************************)
(* Model of src/caiushall.py: the CaiusHall object (Raven session state    *)
(* and the local hall-booking cache) together with the per-user data files *)
(* it reads and writes and the two remote services it talks to.            *)
(*                                                                         *)
(* Every method of the class is an operator from the state before the call *)
(* (a record s of the object's fields plus the data files) and the         *)
(* responses of the outside world to a result record                       *)
(*     [s |-> state after, ret |-> returned value or raised exception,     *)
(*      reqs |-> HTTP requests and file opens, in order,                   *)
(*      out |-> lines printed].                                            *)
(* One action per method applies the operator to the variables.            *)
(***************************************************************************)
EXTENDS Integers, Sequences, FiniteSets, TLC

VARIABLES
    cookies,        \* self.cookies: NoCookies (None) or Jar(set of cookies)
    current_user,   \* self.current_user: None or a crsid
    hall_bookings,  \* self.hall_bookings: dict utc_date_string -> booking data
    files,          \* DATA_PATH + <crsid> + '_data.json', one per crsid
    remote_expired, \* the hall server redirects every GET to Raven (fixed per run)
    last            \* the most recent call: what was called and what it gave

vars == <<cookies, current_user, hall_bookings, files, remote_expired, last>>

-----------------------------------------------------------------------------
(* Bounds of the model *)

\* local_book_hall is not offered a new key once the dict holds this many.
MaxBookings == 1

\* The slots of the standard-slot check are on 2024-03-17 (a Sunday) and the
\* days after it, this many days in all.
NumSlotDays == 7

-----------------------------------------------------------------------------
(* Constants of the program *)

HALL_URL == "https://www.cai.cam.ac.uk/mealbookings/index.php"
RAVEN_AUTH_PAGE == "https://raven.cam.ac.uk/auth/authenticate2.html"
RAVEN_STATUS_PAGE == "https://raven.cam.ac.uk/auth/status.html"

\* Python's None, as the value of current_user.
None == "None"
\* Python's None, as the value of cookies; a cookie jar is Jar(set).
NoCookies == <<>>
Jar(j) == <<j>>

-----------------------------------------------------------------------------
(* Inputs *)

Users == {"ab123", "cd456"}
Tokens == {"ck1"}
Types == {"first", "formal"}

\* A response without a Location header.
NoHeader == "<no location header>"

\* utc_date arguments: datetime.datetime values.
DateTime(d, h, mi, sec) ==
    [year |-> 2024, month |-> 3, day |-> d, hour |-> h, minute |-> mi, second |-> sec]

\* 2024-03-17 is a Sunday. Two of the three differ in their seconds only.
DateTimes ==
    {DateTime(17, 18, 15, 0), DateTime(17, 18, 15, 30), DateTime(18, 18, 15, 0)}

\* The utc_date arguments of the standard-slot check: every day of the week,
\* at the standard times, at the other hour and minute pairs made of them,
\* and at noon.
SlotDateTimes ==
    {DateTime(16 + i, h, mi, 0) : i \in 1..NumSlotDays, h \in {18, 19}, mi \in {0, 15, 20, 30}}
        \cup {DateTime(16 + i, 12, 0, 0) : i \in 1..NumSlotDays}

\* What session.get(HALL_URL) can give: a response with a final url, or a
\* requests exception (connection failure).
GetResponses ==
    {[raised |-> FALSE, url |-> u] : u \in {HALL_URL, RAVEN_AUTH_PAGE}}
        \cup {[raised |-> TRUE, url |-> ""]}

PostResponse(st, loc, ck, errs) ==
    [raised |-> FALSE, status_code |-> st, location |-> loc, cookies |-> ck,
     errors |-> errs]

ErrorSpans == {<<>>, <<"Incorrect password">>}

\* What session.post(RAVEN_AUTH_PAGE) can give: redirects to the status page
\* (with or without cookies), to another page, or without a Location; pages
\* and server errors that are no redirect, whatever Location they carry; or
\* a requests exception.
PostResponses ==
    {PostResponse(302, RAVEN_STATUS_PAGE, ck, <<>>) : ck \in SUBSET Tokens}
        \cup {PostResponse(302, RAVEN_AUTH_PAGE, {}, e) : e \in ErrorSpans}
        \cup {PostResponse(302, NoHeader, {}, <<>>)}
        \cup {PostResponse(200, NoHeader, {}, <<"Incorrect password">>)}
        \cup {PostResponse(200, RAVEN_STATUS_PAGE, Tokens, <<>>)}
        \cup {PostResponse(500, NoHeader, {}, <<>>)}
        \cup {[raised |-> TRUE, status_code |-> 0, location |-> NoHeader,
               cookies |-> {}, errors |-> <<>>]}

\* How a write of the data file can end.
WriteOutcomes == {"ok", "open_fails", "write_fails"}

-----------------------------------------------------------------------------
(* Data files and JSON *)

EmptyDict == [k \in {} |-> 0]

NoFile == [exists |-> FALSE, valid |-> FALSE, text |-> {}]
\* A file cut short while being written: not a JSON document.
TruncatedFile == [exists |-> TRUE, valid |-> FALSE, text |-> {}]

\* json.dump of a dict: a JSON object, the set of its name/value pairs.
json_dump(d) == {<<k, d[k]>> : k \in DOMAIN d}

\* json.load of a JSON object: the dict of its pairs.
json_load(text) ==
    [k \in {p[1] : p \in text} |-> (CHOOSE p \in text : p[1] = k)[2]]

-----------------------------------------------------------------------------
(* strftime *)

Pad2(n) == IF n < 10 THEN "0" \o ToString(n) ELSE ToString(n)

\* utc_date.strftime('%Y-%m-%d %H:%M')
strftime_date(dt) ==
    ToString(dt.year) \o "-" \o Pad2(dt.month) \o "-" \o Pad2(dt.day)
        \o " " \o Pad2(dt.hour) \o ":" \o Pad2(dt.minute)

\* utc_date.strftime('%H:%M')
strftime_time(dt) == Pad2(dt.hour) \o ":" \o Pad2(dt.minute)

DayNames ==
    <<"Sunday", "Monday", "Tuesday", "Wednesday", "Thursday", "Friday", "Saturday">>

\* utc_date.strftime('%A'): the day of the week of a Gregorian date
\* (Sakamoto's method).
strftime_day(dt) ==
    LET t == <<0, 3, 2, 5, 0, 3, 5, 1, 4, 6, 2, 4>>
        y == IF dt.month < 3 THEN dt.year - 1 ELSE dt.year
        w == (y + (y \div 4) - (y \div 100) + (y \div 400) + t[dt.month] + dt.day) % 7
    IN  DayNames[w + 1]

-----------------------------------------------------------------------------
(* The object and its methods *)

\* The state a method works on: the object's fields and the data files.
\* (self.session carries no state the methods read; it is left out.)
Self ==
    [cookies |-> cookies, current_user |-> current_user,
     hall_bookings |-> hall_bookings, files |-> files]

Result(s, ret, reqs, out) == [s |-> s, ret |-> ret, reqs |-> reqs, out |-> out]

\* Exceptions a method can end with, instead of returning.
Exceptions == {"ConnectionError", "KeyError", "ValueError", "IOError"}

\* Python truth value of self.cookies: None and an empty jar are false.
Truthy(c) == c # NoCookies /\ c[1] # {}

\* What the object holds at the moment a request is sent.
Held(s) ==
    [cookies |-> s.cookies, current_user |-> s.current_user,
     n_bookings |-> Cardinality(DOMAIN s.hall_bookings)]

GET(s, get) == [method |-> "GET", url |-> HALL_URL, response |-> get]

\* io.open of the data file of crsid, and how it ended.
OPEN(crsid, mode, outcome) ==
    [method |-> "open", name |-> crsid \o "_data.json", mode |-> mode,
     outcome |-> outcome]

POST(s, crsid, post) ==
    [method |-> "POST", url |-> RAVEN_AUTH_PAGE, userid |-> crsid, held |-> Held(s),
     response |-> post]

\* __init__: a new object; the data files are what they were.
init(s) ==
    [cookies |-> NoCookies, current_user |-> None,
     hall_bookings |-> EmptyDict, files |-> s.files]

\* is_authed forgetting line 115: an expired session clears the cookies only.
is_authed_keeps_user(s, get) ==
    IF ~Truthy(s.cookies)
    THEN Result(s, "False", <<>>, <<>>)
    ELSE IF get.raised
    THEN Result(s, "ConnectionError", <<GET(s, get)>>, <<>>)
    ELSE IF HALL_URL = get.url
    THEN Result(s, "True", <<GET(s, get)>>, <<>>)
    ELSE Result([s EXCEPT !.cookies = NoCookies], "False", <<GET(s, get)>>, <<>>)

\* is_authed without lines 114-115: an expired session is reported only.
is_authed_no_clear(s, get) ==
    IF ~Truthy(s.cookies)
    THEN Result(s, "False", <<>>, <<>>)
    ELSE IF get.raised
    THEN Result(s, "ConnectionError", <<GET(s, get)>>, <<>>)
    ELSE IF HALL_URL = get.url
    THEN Result(s, "True", <<GET(s, get)>>, <<>>)
    ELSE Result(s, "False", <<GET(s, get)>>, <<>>)

\* is_authed testing `self.cookies is None` in line 105: an empty jar is sent.
is_authed_none_check(s, get) ==
    IF s.cookies = NoCookies
    THEN Result(s, "False", <<>>, <<>>)
    ELSE IF get.raised
    THEN Result(s, "ConnectionError", <<GET(s, get)>>, <<>>)
    ELSE IF HALL_URL = get.url
    THEN Result(s, "True", <<GET(s, get)>>, <<>>)
    ELSE Result([s EXCEPT !.cookies = NoCookies, !.current_user = None],
                "False", <<GET(s, get)>>, <<>>)

is_authed(s, get) ==
    IF ~Truthy(s.cookies)
    THEN Result(s, "False", <<>>, <<>>)
    ELSE IF get.raised
    THEN Result(s, "ConnectionError", <<GET(s, get)>>, <<>>)
    ELSE IF HALL_URL = get.url
    THEN Result(s, "True", <<GET(s, get)>>, <<>>)
    ELSE Result([s EXCEPT !.cookies = NoCookies, !.current_user = None],
                "False", <<GET(s, get)>>, <<>>)

load_local_bookings(s) ==
    IF s.current_user # None
    THEN LET f == s.files[s.current_user]
         IN  IF ~f.exists
             THEN Result(s, "None", <<OPEN(s.current_user, "rb", "IOError")>>,
                         <<"No data file found for user " \o s.current_user \o ".">>)
             ELSE IF ~f.valid
             THEN Result(s, "ValueError", <<OPEN(s.current_user, "rb", "ok")>>, <<>>)
             ELSE Result([s EXCEPT !.hall_bookings = json_load(f.text)], "None",
                         <<OPEN(s.current_user, "rb", "ok")>>, <<>>)
    ELSE Result(s, "None", <<>>,
                <<"Error: no current user specified - cannot load local bookings.">>)

save_local_bookings(s, w) ==
    IF s.current_user # None
    THEN CASE w = "ok" ->
                Result([s EXCEPT !.files[s.current_user] =
                            [exists |-> TRUE, valid |-> TRUE,
                             text |-> json_dump(s.hall_bookings)]],
                       "None", <<OPEN(s.current_user, "wb", w)>>, <<>>)
           [] w = "open_fails" ->
                Result(s, "IOError", <<OPEN(s.current_user, "wb", w)>>, <<>>)
           [] w = "write_fails" ->
                Result([s EXCEPT !.files[s.current_user] = TruncatedFile],
                       "IOError", <<OPEN(s.current_user, "wb", w)>>, <<>>)
    ELSE Result(s, "None", <<>>,
                <<"Error: no current user specified - cannot save local bookings.">>)

\* login without lines 82-86: a redirect elsewhere is always "unexpected".
login_no_extraction(s, crsid, post, reqs) ==
    LET sent == Append(reqs, POST(s, crsid, post))
    IN  IF post.raised
        THEN Result(s, "ConnectionError", sent, <<>>)
        ELSE IF post.status_code = 302
        THEN IF post.location = NoHeader
             THEN Result(s, "KeyError", sent, <<>>)
             ELSE IF post.location = RAVEN_STATUS_PAGE
             THEN LET s2 == [s EXCEPT !.cookies = Jar(post.cookies),
                                      !.current_user = crsid]
                      ld == load_local_bookings(s2)
                      pr == <<"Successfully logged in user " \o crsid \o ".">>
                  IN  IF ld.ret \in Exceptions
                      THEN Result(ld.s, ld.ret, sent \o ld.reqs, pr \o ld.out)
                      ELSE Result(ld.s, "True", sent \o ld.reqs, pr \o ld.out)
             ELSE Result(s, "False", sent,
                         <<"Error: Received a good response from server, but the page returned was unexpected.">>)
        ELSE Result(s, "False", sent,
                    <<"Error: Authentication failed - server responded with error code "
                        \o ToString(post.status_code)>>)

\* login with line 74 moved above the test of line 71: the cookies of any
\* redirect are kept.
login_keeps_cookies(s, crsid, post, reqs) ==
    LET sent == Append(reqs, POST(s, crsid, post))
    IN  IF post.raised
        THEN Result(s, "ConnectionError", sent, <<>>)
        ELSE IF post.status_code = 302
        THEN IF post.location = NoHeader
             THEN Result(s, "KeyError", sent, <<>>)
             ELSE IF post.location = RAVEN_STATUS_PAGE
             THEN LET s2 == [s EXCEPT !.cookies = Jar(post.cookies),
                                      !.current_user = crsid]
                      ld == load_local_bookings(s2)
                      pr == <<"Successfully logged in user " \o crsid \o ".">>
                  IN  IF ld.ret \in Exceptions
                      THEN Result(ld.s, ld.ret, sent \o ld.reqs, pr \o ld.out)
                      ELSE Result(ld.s, "True", sent \o ld.reqs, pr \o ld.out)
             ELSE IF Len(post.errors) > 0
             THEN Result([s EXCEPT !.cookies = Jar(post.cookies)], "False", sent,
                         <<"Error: Server responded - " \o post.errors[1]>>)
             ELSE Result([s EXCEPT !.cookies = Jar(post.cookies)], "False", sent,
                         <<"Error: Received a good response from server, but the page returned was unexpected.">>)
        ELSE Result(s, "False", sent,
                    <<"Error: Authentication failed - server responded with error code "
                        \o ToString(post.status_code)>>)

\* Lines 65-92 of auth: the login procedure, after the requests reqs.
login(s, crsid, post, reqs) ==
    LET sent == Append(reqs, POST(s, crsid, post))
    IN  IF post.raised
        THEN Result(s, "ConnectionError", sent, <<>>)
        ELSE IF post.status_code = 302
        THEN IF post.location = NoHeader
             THEN Result(s, "KeyError", sent, <<>>)
             ELSE IF post.location = RAVEN_STATUS_PAGE
             THEN LET s2 == [s EXCEPT !.cookies = Jar(post.cookies),
                                      !.current_user = crsid]
                      ld == load_local_bookings(s2)
                      pr == <<"Successfully logged in user " \o crsid \o ".">>
                  IN  IF ld.ret \in Exceptions
                      THEN Result(ld.s, ld.ret, sent \o ld.reqs, pr \o ld.out)
                      ELSE Result(ld.s, "True", sent \o ld.reqs, pr \o ld.out)
             ELSE IF Len(post.errors) > 0
             THEN Result(s, "False", sent,
                         <<"Error: Server responded - " \o post.errors[1]>>)
             ELSE Result(s, "False", sent,
                         <<"Error: Received a good response from server, but the page returned was unexpected.">>)
        ELSE Result(s, "False", sent,
                    <<"Error: Authentication failed - server responded with error code "
                        \o ToString(post.status_code)>>)

\* auth without the `return True` of line 60: a live session logs in again.
auth_no_return(s, crsid, get, post) ==
    IF crsid = s.current_user
    THEN LET chk == is_authed(s, get)
         IN  IF chk.ret \in Exceptions
             THEN chk
             ELSE login(chk.s, crsid, post, chk.reqs)
    ELSE login(s, crsid, post, <<>>)

\* auth without the test of line 55: the session is checked for any crsid.
auth_always_checks(s, crsid, get, post) ==
    LET chk == is_authed(s, get)
    IN  IF chk.ret \in Exceptions
        THEN chk
        ELSE IF chk.ret = "True"
        THEN Result(chk.s, "True", chk.reqs,
                    <<"User " \o crsid \o " is already logged in.">>)
        ELSE login(chk.s, crsid, post, chk.reqs)

\* auth logging in again after the login that follows an expired session.
auth_retry(s, crsid, get, post) ==
    IF crsid = s.current_user
    THEN LET chk == is_authed(s, get)
         IN  IF chk.ret \in Exceptions
             THEN chk
             ELSE IF chk.ret = "True"
             THEN Result(chk.s, "True", chk.reqs,
                         <<"User " \o crsid \o " is already logged in.">>)
             ELSE LET r1 == login(chk.s, crsid, post, chk.reqs)
                  IN  IF Len(chk.reqs) > 0
                      THEN login(r1.s, crsid, post, r1.reqs)
                      ELSE r1
    ELSE login(s, crsid, post, <<>>)

auth(s, crsid, get, post) ==
    IF crsid = s.current_user
    THEN LET chk == is_authed(s, get)
         IN  IF chk.ret \in Exceptions
             THEN chk
             ELSE IF chk.ret = "True"
             THEN Result(chk.s, "True", chk.reqs,
                         <<"User " \o crsid \o " is already logged in.">>)
             ELSE login(chk.s, crsid, post, chk.reqs)
    ELSE login(s, crsid, post, <<>>)

\* logout without line 127: the bookings stay in memory.
logout_keeps_bookings(s) ==
    Result([s EXCEPT !.current_user = None, !.cookies = NoCookies],
           "None", <<>>, <<"Logged out of Raven.">>)

logout(s) ==
    Result([s EXCEPT !.hall_bookings = EmptyDict,
                     !.current_user = None, !.cookies = NoCookies],
           "None", <<>>, <<"Logged out of Raven.">>)

\* special without the Sunday rule: formal hall is at 19:20 every day.
special_no_sunday(day, time, type) ==
    ~ (\/ (time = "18:15" /\ type = "first")
       \/ (time = "19:20" /\ type = "formal"))

\* Line 190-192: the booking is special if time and day are not the expected.
special(day, time, type) ==
    ~ (\/ (time = "18:15" /\ type = "first")
       \/ (time = "19:20" /\ type = "formal" /\ day # "Sunday")
       \/ (time = "19:30" /\ type = "formal" /\ day = "Sunday"))

\* d[key] = value on a dict.
SetItem(d, key, value) ==
    [k \in DOMAIN d \cup {key} |-> IF k = key THEN value ELSE d[k]]

\* del d[key] on a dict.
DelItem(d, key) == [k \in DOMAIN d \ {key} |-> d[k]]

\* local_book_hall with lines 203 and 204 the other way round: it saves
\* first and adds the booking after.
local_book_hall_saves_first(s, utc_date, type, special_info, vegetarian, requirements, w) ==
    LET utc_date_string == strftime_date(utc_date)
        day == strftime_day(utc_date)
        time == strftime_time(utc_date)
        data == [utc_date |-> utc_date_string, type |-> type,
                 special |-> special(day, time, type),
                 special_info |-> special_info, vegetarian |-> vegetarian,
                 requirements |-> requirements]
        sv == save_local_bookings(s, w)
    IN  Result([sv.s EXCEPT !.hall_bookings =
                    SetItem(s.hall_bookings, utc_date_string, data)],
               sv.ret, sv.reqs, sv.out)

local_book_hall(s, utc_date, type, special_info, vegetarian, requirements, w) ==
    LET utc_date_string == strftime_date(utc_date)
        day == strftime_day(utc_date)
        time == strftime_time(utc_date)
        data == [utc_date |-> utc_date_string, type |-> type,
                 special |-> special(day, time, type),
                 special_info |-> special_info, vegetarian |-> vegetarian,
                 requirements |-> requirements]
        s1 == [s EXCEPT !.hall_bookings = SetItem(s.hall_bookings, utc_date_string, data)]
        sv == save_local_bookings(s1, w)
    IN  sv

\* local_cancel_hall saving after the if of line 220: also when there was
\* no booking to delete.
local_cancel_hall_always_saves(s, utc_date, w) ==
    LET utc_date_string == strftime_date(utc_date)
    IN  IF utc_date_string \in DOMAIN s.hall_bookings
        THEN LET s1 == [s EXCEPT !.hall_bookings = DelItem(s.hall_bookings, utc_date_string)]
                 sv == save_local_bookings(s1, w)
             IN  IF sv.ret \in Exceptions
                 THEN sv
                 ELSE Result(sv.s, "True", sv.reqs, sv.out)
        ELSE LET sv == save_local_bookings(s, w)
             IN  IF sv.ret \in Exceptions
                 THEN sv
                 ELSE Result(sv.s, "False", sv.reqs,
                             <<"Error: no booking found for the date chosen">> \o sv.out)

local_cancel_hall(s, utc_date, w) ==
    LET utc_date_string == strftime_date(utc_date)
    IN  IF utc_date_string \in DOMAIN s.hall_bookings
        THEN LET s1 == [s EXCEPT !.hall_bookings = DelItem(s.hall_bookings, utc_date_string)]
                 sv == save_local_bookings(s1, w)
             IN  IF sv.ret \in Exceptions
                 THEN sv
                 ELSE Result(sv.s, "True", sv.reqs, sv.out)
        ELSE Result(s, "False", <<>>, <<"Error: no booking found for the date chosen">>)

-----------------------------------------------------------------------------------------------------------------------------------------------------
(* Specification *)

\* The record of a call: the method, its arguments, and its result without
\* the state (which is in the variables).
Call(op, args, r) ==
    [op |-> op, args |-> args, ret |-> r.ret, reqs |-> r.reqs, out |-> r.out]

Apply(r) ==
    /\ cookies' = r.s.cookies
    /\ current_user' = r.s.current_user
    /\ hall_bookings' = r.s.hall_bookings
    /\ files' = r.s.files
    /\ UNCHANGED remote_expired

\* The requests of a call that went to `method`.
Sent(reqs, method) == {i \in DOMAIN reqs : reqs[i].method = method}

\* An answer of the outside world is drawn only for a request that is made:
\* a call that made none is counted once, with the answer `unasked`.
Asked(r, method, answer, unasked) == Sent(r.reqs, method) # {} \/ answer = unasked

NoGet == [raised |-> TRUE, url |-> ""]
NoPost ==
    [raised |-> TRUE, status_code |-> 0, location |-> NoHeader, cookies |-> {},
     errors |-> <<>>]

\* The responses the hall server can give to a GET.
GetNow ==
    IF remote_expired THEN {g \in GetResponses : g.url # HALL_URL} ELSE GetResponses

\* The state after construction, on a machine without data files.
Start ==
    /\ cookies = NoCookies
    /\ current_user = None
    /\ hall_bookings = EmptyDict
    /\ files = [u \in Users |-> NoFile]
    /\ last = [op |-> "__init__", args |-> <<>>, ret |-> "None", reqs |-> <<>>, out |-> <<>>]

Init == Start /\ remote_expired = FALSE

\* The same, against a hall server on which every session has expired.
InitExpired == Start /\ remote_expired = TRUE

\* The program is started again: a new object, the files as they are.
Construct ==
    /\ Apply(Result(init(Self), "None", <<>>, <<>>))
    /\ last' = [op |-> "__init__", args |-> <<>>, ret |-> "None", reqs |-> <<>>, out |-> <<>>]

Auth ==
    \E crsid \in Users, get \in GetNow, post \in PostResponses :
        \E r \in {auth(Self, crsid, get, post)} :
            /\ Asked(r, "GET", get, NoGet)
            /\ Asked(r, "POST", post, NoPost)
            /\ Apply(r)
            /\ last' = Call("auth", <<crsid>>, r)

IsAuthed ==
    \E get \in GetNow :
        \E r \in {is_authed(Self, get)} :
            /\ Asked(r, "GET", get, NoGet)
            /\ Apply(r)
            /\ last' = Call("is_authed", <<>>, r)

Logout ==
    \E r \in {logout(Self)} :
        /\ Apply(r)
        /\ last' = Call("logout", <<>>, r)

LocalBookHall ==
    \E utc_date \in DateTimes, type \in Types, w \in WriteOutcomes :
        /\ \/ strftime_date(utc_date) \in DOMAIN hall_bookings
           \/ Cardinality(DOMAIN hall_bookings) < MaxBookings
        /\ \E r \in {local_book_hall(Self, utc_date, type, "", FALSE, "", w)} :
               /\ Asked(r, "open", w, "ok")
               /\ Apply(r)
               /\ last' = Call("local_book_hall", <<utc_date, type>>, r)

LocalCancelHall ==
    \E utc_date \in DateTimes, w \in WriteOutcomes :
        \E r \in {local_cancel_hall(Self, utc_date, w)} :
            /\ Asked(r, "open", w, "ok")
            /\ Apply(r)
            /\ last' = Call("local_cancel_hall", <<utc_date>>, r)

Next ==
    \/ Construct
    \/ Auth
    \/ IsAuthed
    \/ Logout
    \/ LocalBookHall
    \/ LocalCancelHall

Spec == Init /\ [][Next]_vars

\* local_book_hall, called with the slots of the standard-slot check.
LocalBookHallAt ==
    \E utc_date \in SlotDateTimes, type \in Types :
        /\ \/ strftime_date(utc_date) \in DOMAIN hall_bookings
           \/ Cardinality(DOMAIN hall_bookings) < MaxBookings
        /\ \E r \in {local_book_hall(Self, utc_date, type, "", FALSE, "", "ok")} :
               /\ Apply(r)
               /\ last' = Call("local_book_hall", <<utc_date, type>>, r)

NextSlot ==
    \/ Construct
    \/ LocalBookHallAt

\* Bookings of every slot of a week, on an object that is started again at will.
SpecSlot == Init /\ [][NextSlot]_vars

SpecExpired == InitExpired /\ [][Next]_vars

-----------------------------------------------------------------------------
(* Properties *)

\* The sign-in request of the last call, when it made one.
ThePost == last.reqs[CHOOSE i \in Sent(last.reqs, "POST") : TRUE]

\* A sign-in response that is a redirect to the status page.
IsSuccess(resp) ==
    ~resp.raised /\ resp.status_code = 302 /\ resp.location = RAVEN_STATUS_PAGE

\* A liveness response whose final url is the hall url.
IsAlive(resp) == ~resp.raised /\ resp.url = HALL_URL

\* What a load of data file f is to give: its dict, the empty dict without a file.
Loaded(f) == IF f.exists /\ f.valid THEN json_load(f.text) ELSE EmptyDict

\* C1: Switching owners. When auth(B) sends its sign-in request, no session
\* and no bookings of another user A are held any more; and after a
\* successful auth(B) that switched from A, with no data file for B, the
\* bookings in memory are empty.
C1_SwitchingOwners ==
    (last.op = "auth" /\ Sent(last.reqs, "POST") # {}) =>
        /\ ThePost.held.current_user # ThePost.userid =>
              /\ ThePost.held.current_user = None
              /\ ThePost.held.cookies = NoCookies
              /\ ThePost.held.n_bookings = 0
        /\ (/\ last.ret = "True"
            /\ ThePost.held.current_user \notin {None, ThePost.userid}
            /\ ~files[ThePost.userid].exists)
              => hall_bookings = EmptyDict

\* C2: in every reachable state the cookie jar is set (not None) if and only
\* if current_user is set.
C2_CookiesIffOwner == (cookies # NoCookies) <=> (current_user # None)

\* C2's case: is_authed has found the session expired and cleared it.
C2_Witness ==
    /\ last.op = "is_authed"
    /\ last.ret = "False"
    /\ Sent(last.reqs, "GET") # {}
    /\ cookies = NoCookies

\* C3: whenever current_user is unset, the bookings in memory are empty.
C3_NoOwnerNoBookings == current_user = None => hall_bookings = EmptyDict

\* C4: a sign-in response that is a 302 to the status page makes auth set
\* current_user to the identifier and cookies to the returned cookies, load
\* the identifier's bookings and return True (stated here for identifiers
\* whose data file is absent or well-formed); after any other sign-in
\* response auth does not return True and owner and cookies are as they were
\* when the request was sent.
C4_SuccessSignal ==
    (last.op = "auth" /\ Sent(last.reqs, "POST") # {}) =>
        IF IsSuccess(ThePost.response)
        THEN /\ files[ThePost.userid] = TruncatedFile
             \/ /\ current_user = ThePost.userid
                /\ cookies = Jar(ThePost.response.cookies)
                /\ hall_bookings = Loaded(files[ThePost.userid])
                /\ last.ret = "True"
        ELSE /\ last.ret # "True"
             /\ current_user = ThePost.held.current_user
             /\ cookies = ThePost.held.cookies

\* C5: auth(identifier) while identifier's session is held and every liveness
\* answer is "alive" returns True, sends no sign-in POST and exactly one
\* liveness GET, and leaves cookies, owner and bookings unchanged.
C5_Idempotent ==
    [][(/\ last'.op = "auth"
        /\ last'.args[1] = current_user
        /\ Truthy(cookies)
        /\ \A i \in Sent(last'.reqs, "GET") : IsAlive(last'.reqs[i].response))
       => /\ last'.ret = "True"
          /\ Sent(last'.reqs, "POST") = {}
          /\ Cardinality(Sent(last'.reqs, "GET")) = 1
          /\ UNCHANGED <<cookies, current_user, hall_bookings, files>>]_vars

\* C5's case: auth returned on the liveness check alone, with bookings held.
C5_Witness ==
    /\ last.op = "auth"
    /\ last.ret = "True"
    /\ Sent(last.reqs, "GET") # {}
    /\ Sent(last.reqs, "POST") = {}
    /\ hall_bookings # EmptyDict

\* A liveness answer of the last call that said "expired".
ExpiredSeen ==
    \E i \in Sent(last.reqs, "GET") :
        ~last.reqs[i].response.raised /\ last.reqs[i].response.url # HALL_URL

C7_LivenessCheck ==
    [][(last'.op = "is_authed" /\ Truthy(cookies))
       => /\ Len(last'.reqs) = 1
          /\ last'.reqs[1].method = "GET"
          /\ last'.reqs[1].url = HALL_URL
          /\ ~last'.reqs[1].response.raised =>
                IF last'.reqs[1].response.url = HALL_URL
                THEN /\ last'.ret = "True"
                     /\ UNCHANGED <<cookies, current_user>>
                ELSE /\ last'.ret = "False"
                     /\ cookies' = NoCookies
                     /\ current_user' = None]_vars

\* C7's case: is_authed, with cookies held, was answered with another url.
C7_Witness ==
    /\ last.op = "is_authed"
    /\ Len(last.reqs) = 1
    /\ ExpiredSeen
    /\ last.ret = "False"
    /\ current_user = None

\* C8: is_authed with no cookies held (None, or an empty jar) returns False,
\* sends no request, and changes neither session, bookings nor data files.
C8_NoCookiesNoRequest ==
    [][(last'.op = "is_authed" /\ ~Truthy(cookies))
       => /\ last'.ret = "False"
          /\ last'.reqs = <<>>
          /\ UNCHANGED <<cookies, current_user, hall_bookings, files>>]_vars

\* C8's case: is_authed returned without a request, the owner holding a jar
\* with no cookie in it.
C8_Witness ==
    /\ last.op = "is_authed"
    /\ last.reqs = <<>>
    /\ last.ret = "False"
    /\ cookies = Jar({})
    /\ current_user # None

\* C9: logout leaves cookies unset, owner unset and the bookings in memory
\* empty, and every data file as it was; and a logout of the state it leaves
\* gives that state again.
C9_Logout ==
    [][last'.op = "logout"
       => /\ cookies' = NoCookies
          /\ current_user' = None
          /\ hall_bookings' = EmptyDict
          /\ files' = files
          /\ logout(logout(Self).s).s = logout(Self).s]_vars

\* C9's case: a logout, with bookings on disk.
C9_Witness ==
    /\ last.op = "logout"
    /\ \E u \in Users : files[u].exists /\ files[u].valid /\ files[u].text # {}

\* C10: after local_book_hall, or a local_cancel_hall that deleted a booking,
\* has returned normally, there is an owner and the owner's data file holds
\* exactly the bookings in memory.
C10_MutationPersisted ==
    (/\ \/ last.op = "local_book_hall"
        \/ last.op = "local_cancel_hall" /\ last.ret = "True"
     /\ last.ret \notin Exceptions)
        => /\ current_user # None
           /\ files[current_user] =
                 [exists |-> TRUE, valid |-> TRUE, text |-> json_dump(hall_bookings)]

\* The bookings a new object holds once it has loaded those of crsid.
FreshLoad(crsid) ==
    load_local_bookings([init(Self) EXCEPT !.current_user = crsid]).s.hall_bookings

C12_Cancel ==
    [][(last'.op = "local_cancel_hall" /\ last'.ret \notin Exceptions)
       => LET key == strftime_date(last'.args[1])
          IN  /\ last'.ret = "True" <=> key \in DOMAIN hall_bookings
              /\ last'.ret = "True" =>
                    /\ hall_bookings' = DelItem(hall_bookings, key)
                    /\ current_user' # None
                    /\ files'[current_user'].exists
                    /\ files'[current_user'].valid
                    /\ json_load(files'[current_user'].text) = hall_bookings'
              /\ last'.ret = "False" => UNCHANGED <<hall_bookings, files>>]_vars

\* The day of March 2024 is a Sunday: the 17th is one.
IsSunday(utc_date) == (utc_date.day - 17) % 7 = 0

\* C13: the record local_book_hall stores has special = FALSE exactly when
\* the booking is first hall at 18:15 (any day), formal hall at 19:20 on a
\* day that is not a Sunday, or formal hall at 19:30 on a Sunday.
C13_StandardSlot ==
    last.op = "local_book_hall" =>
        LET utc_date == last.args[1]
            type == last.args[2]
            at(h, mi) == utc_date.hour = h /\ utc_date.minute = mi
            record == hall_bookings[strftime_date(utc_date)]
        IN  record.special = FALSE <=>
                \/ type = "first" /\ at(18, 15)
                \/ type = "formal" /\ at(19, 20) /\ ~IsSunday(utc_date)
                \/ type = "formal" /\ at(19, 30) /\ IsSunday(utc_date)

\* C13's case: formal hall booked for 19:30 on a Monday, which is special.
C13_Witness ==
    /\ last.op = "local_book_hall"
    /\ last.args[1].day = 18
    /\ last.args[1].hour = 19
    /\ last.args[1].minute = 30
    /\ last.args[2] = "formal"
    /\ hall_bookings[strftime_date(last.args[1])].special = TRUE

\* C14: a successful auth of an identifier that has no data file leaves the
\* bookings in memory empty, whatever they were before.
C14_FirstTimeUser ==
    (/\ last.op = "auth"
     /\ last.ret = "True"
     /\ Sent(last.reqs, "POST") # {}
     /\ ~files[current_user].exists)
        => hall_bookings = EmptyDict

\* The last call had a save to make that did not reach the disk: there was no
\* owner to save under, or the data file could not be opened or written.
SaveFailed ==
    \/ current_user = None
    \/ \E i \in Sent(last.reqs, "open") :
          last.reqs[i].mode = "wb" /\ last.reqs[i].outcome # "ok"

\* C15: when the save of local_book_hall or of a local_cancel_hall that
\* found its booking fails, the bookings in memory show the change (the
\* booking added, or gone), and the call ends with an error.
C15_FailedSave ==
    /\ (last.op = "local_book_hall" /\ SaveFailed) =>
          /\ strftime_date(last.args[1]) \in DOMAIN hall_bookings
          /\ hall_bookings[strftime_date(last.args[1])].type = last.args[2]
          /\ last.ret \in Exceptions
    /\ (last.op = "local_cancel_hall" /\ last.ret # "False" /\ SaveFailed) =>
          /\ strftime_date(last.args[1]) \notin DOMAIN hall_bookings
          /\ last.ret \in Exceptions

\* The last call was an auth whose sign-in was answered, and not with a
\* redirect to the status page.
SignInRefused ==
    /\ last.op = "auth"
    /\ Sent(last.reqs, "POST") # {}
    /\ ~ThePost.response.raised
    /\ ~IsSuccess(ThePost.response)

AuthRequests(reqs, crsid) ==
    /\ Cardinality(Sent(reqs, "GET")) <= 1
    /\ Cardinality(Sent(reqs, "POST")) <= 1
    /\ \A i \in Sent(reqs, "GET"), j \in Sent(reqs, "POST") : i < j
    /\ Sent(reqs, "GET") # {} => (crsid = current_user /\ Truthy(cookies))

\* C17 as claimed: auth sends at most one liveness GET and at most one
\* sign-in POST, the GET before the POST; the GET only when the identifier
\* is the current owner and cookies are held; and the POST in every case
\* except when that GET reports the session alive.
C17_PostUnlessAlive ==
    [][last'.op = "auth" =>
          /\ AuthRequests(last'.reqs, last'.args[1])
          /\ Sent(last'.reqs, "POST") = {} <=>
                \E i \in Sent(last'.reqs, "GET") : IsAlive(last'.reqs[i].response)]_vars

\* C17 as amended: the same, with the POST sent in every case except when
\* that GET reports the session alive or fails in transport, in which case
\* the exception ends auth.
C17_PostUnlessAliveOrRaised ==
    [][last'.op = "auth" =>
          /\ AuthRequests(last'.reqs, last'.args[1])
          /\ Sent(last'.reqs, "POST") = {} <=>
                \E i \in Sent(last'.reqs, "GET") :
                    \/ IsAlive(last'.reqs[i].response)
                    \/ last'.reqs[i].response.raised
          /\ (\E i \in Sent(last'.reqs, "GET") : last'.reqs[i].response.raised)
                => last'.ret = "ConnectionError"]_vars

\* C17's case: an auth that sent the GET, found the session expired, and
\* then sent the POST.
C17_Witness ==
    /\ last.op = "auth"
    /\ Sent(last.reqs, "GET") = {1}
    /\ ~IsAlive(last.reqs[1].response)
    /\ Sent(last.reqs, "POST") = {2}

\* C18: Malformed data file. When the data file of the user signing in is
\* malformed, auth ends with an error and not with True, and the object is
\* not left logged in as that user: neither with the bookings held before
\* kept as that user's, nor with an empty dict in their place.
C18_MalformedFile ==
    (/\ last.op = "auth"
     /\ Sent(last.reqs, "POST") # {}
     /\ IsSuccess(ThePost.response)
     /\ files[ThePost.userid].exists
     /\ ~files[ThePost.userid].valid)
        => /\ last.ret \in Exceptions
           /\ current_user # ThePost.userid

\* The requests that opened a data file for writing.
Writes(reqs) == {i \in Sent(reqs, "open") : reqs[i].mode = "wb"}

\* C19: Frame of the data files. A call writes at most the data file of the
\* user who is current_user when it writes; the data files of all other
\* users are as before; and auth, is_authed, logout, a cancel of a booking
\* that does not exist, and a booking or cancel made with no current_user
\* write no data file at all.
C19_FilesFrame ==
    [][/\ \A u \in Users : files'[u] # files[u] => u = current_user
       /\ \A i \in Writes(last'.reqs) :
             /\ current_user # None
             /\ current_user' = current_user
             /\ last'.reqs[i].name = current_user \o "_data.json"
       /\ (\/ last'.op \in {"__init__", "auth", "is_authed", "logout"}
           \/ last'.op = "local_cancel_hall" /\ last'.ret = "False"
           \/ current_user = None)
             => /\ files' = files
                /\ Writes(last'.reqs) = {}]_vars

\* C19's case: a booking that wrote the data file of its user while the
\* other user had a data file with a booking in it.
C19_Witness ==
    /\ last.op = "local_book_hall"
    /\ Writes(last.reqs) # {}
    /\ current_user = "ab123"
    /\ files["ab123"].exists /\ files["ab123"].valid
    /\ files["cd456"].exists /\ files["cd456"].valid
    /\ json_load(files["cd456"].text) # EmptyDict
    /\ json_load(files["cd456"].text) # json_load(files["ab123"].text)

\* C20: A sign-in that does not succeed changes nothing. When the answer to
\* auth's POST is not a 302 to the status page, cookies and current_user
\* after the call are those held when the POST was sent, and the bookings in
\* memory and the data files are as before the call: a call that sent no GET
\* changes nothing at all, and a failed auth for another identifier leaves
\* the session of the current user in place.
C20_FailedSignInFrame ==
    [][(/\ last'.op = "auth"
        /\ Sent(last'.reqs, "POST") # {}
        /\ ~IsSuccess(last'.reqs[CHOOSE i \in Sent(last'.reqs, "POST") : TRUE].response))
          => LET post == last'.reqs[CHOOSE i \in Sent(last'.reqs, "POST") : TRUE]
             IN  /\ cookies' = post.held.cookies
                 /\ current_user' = post.held.current_user
                 /\ Cardinality(DOMAIN hall_bookings') = post.held.n_bookings
                 /\ hall_bookings' = hall_bookings
                 /\ files' = files
                 /\ Sent(last'.reqs, "GET") = {} => UNCHANGED <<cookies, current_user>>
                 /\ last'.args[1] # current_user => UNCHANGED <<cookies, current_user>>
                 /\ Sent(last'.reqs, "GET") # {} =>
                       /\ cookies' = NoCookies
                       /\ current_user' = None]_vars

\* C20's case: a sign-in of cd456 was answered with a redirect to another
\* page while ab123 is logged in with cookies and a booking.
C20_Witness ==
    /\ last.op = "auth"
    /\ last.args[1] = "cd456"
    /\ Sent(last.reqs, "POST") # {}
    /\ ~ThePost.response.raised
    /\ ThePost.response.status_code = 302
    /\ ThePost.response.location = RAVEN_AUTH_PAGE
    /\ current_user = "ab123"
    /\ Truthy(cookies)
    /\ hall_bookings # EmptyDict

====
